---- MODULE Spec2Model ----
(***************************************************************************)
(* Model of backend_api/main.py: the Flask resource /api/text.             *)
(*   GET  lists every "Articles" entity of the datastore.                   *)
(*   POST analyses the file behind file_uri, labels the score, stores an    *)
(*        entity and returns it.                                            *)
(* Each in-flight HTTP request is one entry of req; the datastore is the    *)
(* only state the requests share.                                           *)
(***************************************************************************)
EXTENDS Integers, FiniteSets, Sequences, TLC

VARIABLES store, store0, req

vars == <<store, store0, req>>

(* ------------------------------ bounds --------------------------------- *)
\* number of HTTP requests (they may all be in flight at once)
MaxReqs == 2
\* scores are the integers -MaxScore..MaxScore (the sign is what the code reads)
MaxScore == 1

Reqs == 1 .. MaxReqs
Scores == (0 - MaxScore) .. MaxScore
\* identifiers the datastore can hand out: one per request and one for the
\* entity the store may hold initially
Ids == 1 .. (MaxReqs + 1)

\* the instants datetime.now() may read (seconds of one minute)
Times == {0, 30}

FileUris == {"gs://bucket/a.txt", "gs://bucket/b.txt"}
LanguageCodes == {"de"}

(* --------------------------- Python values ----------------------------- *)
None == [type |-> "NoneType"]
PyStr(s) == [type |-> "str", value |-> s]
PyInt(n) == [type |-> "int", value |-> n]
PyFloat(x) == [type |-> "float", value |-> x]
PyDatetime(t) == [type |-> "datetime", value |-> t]
PyDict(f) == [type |-> "dict", value |-> f]

Digit(d) ==
  CASE d = 0 -> "0" [] d = 1 -> "1" [] d = 2 -> "2" [] d = 3 -> "3"
    [] d = 4 -> "4" [] d = 5 -> "5" [] d = 6 -> "6" [] d = 7 -> "7"
    [] d = 8 -> "8" [] OTHER -> "9"

RECURSIVE Decimal(_)
Decimal(n) == IF n < 10 THEN Digit(n) ELSE Decimal(n \div 10) \o Digit(n % 10)

\* the builtin str(): text of a value
str(v) ==
  CASE v.type = "NoneType" -> "None"
    [] v.type = "str" -> v.value
    [] v.type = "int" -> Decimal(v.value)
    [] v.type = "datetime" ->
         "2021-01-01 00:00:" \o (IF v.value < 10 THEN "0" ELSE "") \o Decimal(v.value)

(* ------------------------------ parser --------------------------------- *)
ParserArguments == {"file_uri", "language_code"}

\* a submitted form: any subset of the two fields, each with a value
Forms ==
  { f \in UNION { [D -> FileUris \cup LanguageCodes] : D \in SUBSET ParserArguments } :
      /\ "file_uri" \in DOMAIN f => f["file_uri"] \in FileUris
      /\ "language_code" \in DOMAIN f => f["language_code"] \in LanguageCodes }

\* parser.parse_args(): an argument the form lacks is None
parse_args(form) ==
  [name \in ParserArguments |->
     IF name \in DOMAIN form THEN PyStr(form[name]) ELSE None]

(* ------------------------- sentiment adapter --------------------------- *)
\* the request analyze_sentiment_using_uri sends to the language service
analyze_sentiment_request(gcs_content_uri, language_code) ==
  [document |-> [gcs_content_uri |-> gcs_content_uri,
                 type_ |-> "PLAIN_TEXT",
                 language |-> language_code],
   encoding_type |-> "UTF8"]

\* the dictionary analyze_sentiment_using_uri returns
analyze_sentiment_results(gcs_content_uri, score) ==
  [text |-> gcs_content_uri, score |-> PyFloat(score)]

(* --------------------------- classification ---------------------------- *)
\* variant: the two signs exchanged
overall_sentiment_swapped(sentiment) ==
  IF sentiment > 0 THEN "negative" ELSE IF sentiment < 0 THEN "positive" ELSE "neutral"

\* variant: the test for a score of zero left out
overall_sentiment_no_zero(sentiment) ==
  IF sentiment > 0 THEN "positive" ELSE IF sentiment < 0 THEN "negative" ELSE "unknown"

\* Text.post: the label of a score
overall_sentiment_of(sentiment) ==
  LET l0 == "unknown"
      l1 == IF sentiment > 0 THEN "positive" ELSE l0
      l2 == IF sentiment < 0 THEN "negative" ELSE l1
      l3 == IF sentiment = 0 THEN "neutral" ELSE l2
  IN l3

(* ------------------------------ datastore ------------------------------ *)
kind == "Articles"

\* variant: a key with a fixed id, as datastore_client.key(kind, 'sample_task')
key_fixed(k) == [kind |-> k, id |-> PyInt(1)]

\* datastore_client.key(kind): a partial key, the id is left to the store
key(k) == [kind |-> k, id |-> None]

\* datastore.Entity(key) with the three properties set
new_entity(k, file_uri, current_datetime, overall_sentiment) ==
  [key |-> k,
   file_uri |-> file_uri,
   timestamp |-> current_datetime,
   sentiment |-> PyStr(overall_sentiment)]

\* the entity as committed: a partial key is completed with the allocated id
completed(entity, allocated) ==
  IF entity.key.id = None
  THEN [entity EXCEPT !.key.id = PyInt(allocated)]
  ELSE entity

\* variant: a put that replaces the entities of the same file
put_dedup(s, entity) == {x \in s : x.file_uri # entity.file_uri} \cup {entity}

\* datastore_client.put(entity): upsert by key
put(s, entity) == {x \in s : x.key # entity.key} \cup {entity}

\* list(datastore_client.query(kind=...).fetch())
fetch(s, k) == {x \in s : x.key.kind = k}

UsedIds(s) == {x.key.id.value : x \in s}

(* ------------------------------ responses ------------------------------ *)
NoResponse == [status |-> 0, body |-> None]

\* variant: the dictionary keyed by file_uri
get_result_by_uri(text_entities) ==
  [k \in {str(e.file_uri) : e \in text_entities} |->
     LET e == CHOOSE x \in text_entities : str(x.file_uri) = k
     IN [file_uri |-> str(e.file_uri),
         timestamp |-> str(e.timestamp),
         sentiment |-> str(e.sentiment)]]

\* Text.get: the dictionary built from the fetched entities
get_result(text_entities) ==
  [k \in {str(e.key.id) : e \in text_entities} |->
     LET e == CHOOSE x \in text_entities : str(x.key.id) = k
     IN [file_uri |-> str(e.file_uri),
         timestamp |-> str(e.timestamp),
         sentiment |-> str(e.sentiment)]]

\* variant: the dictionary keyed by the id the key had before the put
post_result_partial(entity, file_uri, current_datetime, overall_sentiment) ==
  [k \in {str(None)} |->
     [file_uri |-> file_uri,
      timestamp |-> str(current_datetime),
      sentiment |-> overall_sentiment]]

\* Text.post: the dictionary returned after the put
post_result(entity, file_uri, current_datetime, overall_sentiment) ==
  [k \in {str(entity.key.id)} |->
     [file_uri |-> file_uri,
      timestamp |-> str(current_datetime),
      sentiment |-> overall_sentiment]]

ok(result) == [status |-> 200, body |-> PyDict(result)]

\* variant: the handler without its status code
server_error_no_status(e) ==
  [status |-> 200,
   body |-> PyStr("An internal error occurred: <pre>" \o e \o "</pre> See logs for full stacktrace.")]

\* the 500 handler
server_error(e) ==
  [status |-> 500,
   body |-> PyStr("An internal error occurred: <pre>" \o e \o "</pre> See logs for full stacktrace.")]

(* ------------------------------- state --------------------------------- *)
Idle ==
  [pc |-> "idle", method |-> "", form |-> <<>>, file_uri |-> None, request |-> None,
   sentiment |-> None, overall_sentiment |-> "unknown", current_datetime |-> None,
   entity |-> None, exc |-> "", response |-> NoResponse]

\* entities a previous run of the service may have left in the store
InitialStores ==
  { {},
    { completed(new_entity(key(kind), PyStr("gs://bucket/a.txt"), PyDatetime(0), "negative"), 1) } }

Init ==
  /\ store \in InitialStores
  /\ store0 = store
  /\ req = [r \in Reqs |-> Idle]

\* variant: file_uri kept in a module-level variable, last written by the
\* latest request that parsed its arguments
post_file_uri_global(r) ==
  LET parsed == {q \in Reqs : req[q].pc \in {"analyze", "put"}}
  IN req[CHOOSE q \in parsed : \A p \in parsed : p <= q].file_uri

\* Text.post: the local variable file_uri of request r
post_file_uri(r) == req[r].file_uri

\* variant: the failure of the analysis caught and a score of 0 used
post_analysis_swallowed(q) ==
  [q EXCEPT !.pc = "put", !.form = <<>>, !.request = None, !.exc = "ServiceError",
            !.sentiment = PyFloat(0), !.overall_sentiment = "neutral",
            !.current_datetime = PyDatetime(0),
            !.entity = new_entity(key(kind), q.file_uri, PyDatetime(0), "neutral")]

\* Text.post when analyze_sentiment_using_uri raises: the exception leaves
\* post and the 500 handler answers
post_analysis_raised(q) ==
  [Idle EXCEPT !.pc = "done", !.method = "POST", !.exc = "ServiceError",
               !.response = server_error("ServiceError")]

(* ------------------------------- GET ----------------------------------- *)
Get(r) ==
  /\ req[r].pc = "idle"
  /\ req' = [req EXCEPT ![r] =
       [@ EXCEPT !.pc = "done", !.method = "GET",
                 !.response = ok(get_result(fetch(store, kind)))]]
  /\ UNCHANGED <<store, store0>>

GetFailed(r) ==
  /\ req[r].pc = "idle"
  /\ req' = [req EXCEPT ![r] =
       [Idle EXCEPT !.pc = "done", !.method = "GET", !.exc = "StoreUnavailable",
                    !.response = server_error("StoreUnavailable")]]
  /\ UNCHANGED <<store, store0>>

(* ------------------------------- POST ---------------------------------- *)
\* parse the form and call the language service
PostAnalyze(r) ==
  /\ req[r].pc = "idle"
  /\ \E form \in Forms :
       LET args == parse_args(form)
           file_uri == args["file_uri"]
           language_code == args["language_code"]
       IN req' = [req EXCEPT ![r] =
            [@ EXCEPT !.pc = "analyze", !.method = "POST", !.form = form,
                      !.file_uri = file_uri,
                      !.request = analyze_sentiment_request(file_uri, language_code)]]
  /\ UNCHANGED <<store, store0>>

\* the language service answers: label the score and build the entity
PostAnalyzed(r) ==
  /\ req[r].pc = "analyze"
  /\ req[r].request.document.gcs_content_uri # None
  /\ \E score \in Scores, now \in Times :
       LET file_uri == post_file_uri(r)
           sentiment == analyze_sentiment_results(file_uri, score).score
           overall_sentiment == overall_sentiment_of(sentiment.value)
           current_datetime == PyDatetime(now)
       IN req' = [req EXCEPT ![r] =
            [@ EXCEPT !.pc = "put", !.form = <<>>, !.request = None,
                      !.sentiment = sentiment,
                      !.overall_sentiment = overall_sentiment,
                      !.current_datetime = current_datetime,
                      !.entity = new_entity(key(kind), file_uri, current_datetime,
                                            overall_sentiment)]]
  /\ UNCHANGED <<store, store0>>

\* the language service call raises
PostAnalyzeFailed(r) ==
  /\ req[r].pc = "analyze"
  /\ req' = [req EXCEPT ![r] = post_analysis_raised(@)]
  /\ UNCHANGED <<store, store0>>

\* the put commits; the response is built from the completed entity
PostPut(r) ==
  /\ req[r].pc = "put"
  /\ \E allocated \in Ids \ UsedIds(store) :
       LET entity == completed(req[r].entity, allocated)
           file_uri == post_file_uri(r)
       IN /\ store' = put(store, entity)
          /\ req' = [req EXCEPT ![r] =
               [@ EXCEPT !.pc = "done", !.entity = entity,
                         !.sentiment = None,
                         !.response = ok(post_result(entity, file_uri,
                                           req[r].current_datetime,
                                           req[r].overall_sentiment))]]
  /\ UNCHANGED store0

\* the put raises: the exception leaves post and the 500 handler answers
PostPutFailed(r) ==
  /\ req[r].pc = "put"
  /\ req' = [req EXCEPT ![r] =
       [Idle EXCEPT !.pc = "done", !.method = "POST", !.exc = "StoreUnavailable",
                    !.response = server_error("StoreUnavailable")]]
  /\ UNCHANGED <<store, store0>>

Next ==
  \E r \in Reqs :
    \/ Get(r)
    \/ GetFailed(r)
    \/ PostAnalyze(r)
    \/ PostAnalyzed(r)
    \/ PostAnalyzeFailed(r)
    \/ PostPut(r)
    \/ PostPutFailed(r)

Spec == Init /\ [][Next]_vars

(* ============================== claims ================================= *)
Labels == {"positive", "negative", "neutral"}

PostDone(r) == req[r].pc = "done" /\ req[r].method = "POST"
PostSucceeded(r) == PostDone(r) /\ req[r].response.status = 200
Successful == {r \in Reqs : PostSucceeded(r)}

\* C1: the label a POST assigns is decided by the sign of its score: positive
\* above zero, negative below zero, neutral at zero; two requests with the
\* same score carry the same label.
C1_LabelBySign ==
  /\ \A r \in Reqs :
       req[r].pc = "put" =>
         LET s == req[r].sentiment.value
             l == req[r].overall_sentiment
         IN /\ s > 0 => l = "positive"
            /\ s < 0 => l = "negative"
            /\ s = 0 => l = "neutral"
  /\ \A r, q \in Reqs :
       (req[r].pc = "put" /\ req[q].pc = "put" /\ req[r].sentiment = req[q].sentiment)
         => req[r].overall_sentiment = req[q].overall_sentiment

C1_Witness ==
  \E r, q \in Reqs :
    /\ req[r].pc = "put" /\ req[r].sentiment.value = 0
    /\ req[r].overall_sentiment = "neutral"
    /\ req[q].pc = "put" /\ req[q].sentiment.value < 0
    /\ req[q].overall_sentiment = "negative"

\* C2: a POST whose analysis call failed is answered with status 500, has
\* built no entity and never reaches the put; the step in which the call
\* fails leaves the store as it was.
C2_AnalysisFailureWritesNothing ==
  /\ [](\A r \in Reqs :
          req[r].exc = "ServiceError" =>
            /\ req[r].pc = "done"
            /\ req[r].response.status = 500
            /\ req[r].entity = None)
  /\ [][\A r \in Reqs :
          (req[r].exc # "ServiceError" /\ req'[r].exc = "ServiceError")
            => store' = store]_vars

C2_Witness ==
  \E r, q \in Reqs :
    /\ req[r].exc = "ServiceError" /\ req[r].response.status = 500
    /\ PostSucceeded(q)

\* C3: a POST whose put failed is answered with status 500 and a text body,
\* not a dictionary: no entry for the entity that was not saved is returned,
\* and that entity is not in the store.
C3_PutFailureIs500 ==
  /\ [](\A r \in Reqs :
          (PostDone(r) /\ req[r].exc = "StoreUnavailable") =>
            /\ req[r].response.status = 500
            /\ req[r].response.body.type = "str")
  /\ [][\A r \in Reqs :
          (req[r].pc = "put" /\ req'[r].exc = "StoreUnavailable") =>
            /\ store' = store
            /\ \A x \in store' : x.key # req[r].entity.key]_vars

C3_Witness ==
  \E r \in Reqs :
    /\ PostDone(r) /\ req[r].exc = "StoreUnavailable"
    /\ req[r].response.status = 500

\* the default of the parameter language_code of analyze_sentiment_using_uri
DefaultLanguageCode == "en"

\* C4: the language service is called with the language "en" when the form
\* has no language_code, and with the submitted value when it has one.
C4_DefaultLanguage ==
  \A r \in Reqs :
    req[r].pc = "analyze" =>
      req[r].request.document.language =
        IF "language_code" \in DOMAIN req[r].form
        THEN PyStr(req[r].form["language_code"])
        ELSE PyStr(DefaultLanguageCode)

\* C5: the store holds one entity more than initially for each successful
\* POST, all with different ids; two successful POSTs of the same file_uri
\* have created two different entities.
C5_OneNewEntityPerSuccess ==
  /\ Cardinality(store) = Cardinality(store0) + Cardinality(Successful)
  /\ \A x, y \in store : x.key.id = y.key.id => x = y
  /\ \A r, q \in Successful :
       r # q => /\ req[r].entity.key.id # req[q].entity.key.id
                /\ req[r].entity \in store
                /\ req[q].entity \in store

C5_Witness ==
  \E r, q \in Successful :
    /\ r # q
    /\ req[r].file_uri = req[q].file_uri
    /\ req[r].entity.key.id # req[q].entity.key.id
    /\ store0 # {}

\* C6: an entity in the store is in the store, unchanged, after every step.
C6_EntitiesPersist == [][\A x \in store : x \in store']_vars

C6_Witness ==
  /\ store0 # {}
  /\ store0 \subseteq store
  /\ Cardinality(Successful) = 2

\* C7: the body of a successful POST has exactly one entry, under the text
\* of the id the store gave the entity of this POST; its file_uri is the
\* submitted one and its sentiment the label of the stored entity.
C7_PostBody ==
  \A r \in Successful :
    LET b == req[r].response.body
        e == req[r].entity
    IN /\ b.type = "dict"
       /\ e.key.id # None
       /\ e.key.id.value \in Ids
       /\ DOMAIN b.value = {Decimal(e.key.id.value)}
       /\ \E x \in store :
            /\ x.key = e.key
            /\ x.file_uri = req[r].file_uri
            /\ b.value[Decimal(e.key.id.value)].file_uri = req[r].file_uri
            /\ PyStr(b.value[Decimal(e.key.id.value)].sentiment) = x.sentiment

C7_Witness ==
  \E r \in Successful :
    /\ req[r].entity.key.id = PyInt(2)
    /\ DOMAIN req[r].response.body.value = {"2"}
    /\ req[r].response.body.value["2"].sentiment = "positive"

\* C8: a successful GET returns one entry for each entity in the store at
\* that moment, under the text of its id, with the texts of its file_uri,
\* timestamp and sentiment; nothing for an empty store, and as many entries
\* as POSTs have succeeded when the store was empty initially.
C8_GetListsStore ==
  [][\A r \in Reqs :
       (req[r].pc = "idle" /\ req'[r].method = "GET" /\ req'[r].response.status = 200)
         => LET b == req'[r].response.body.value
            IN /\ req'[r].response.body.type = "dict"
               /\ Cardinality(DOMAIN b) = Cardinality(store)
               /\ \A x \in store :
                    /\ Decimal(x.key.id.value) \in DOMAIN b
                    /\ b[Decimal(x.key.id.value)].file_uri = x.file_uri.value
                    /\ b[Decimal(x.key.id.value)].sentiment = x.sentiment.value
                    /\ b[Decimal(x.key.id.value)].timestamp = str(x.timestamp)
               /\ store = {} => DOMAIN b = {}
               /\ store0 = {} => Cardinality(DOMAIN b) = Cardinality(Successful)]_vars

C8_Witness ==
  \E r \in Reqs :
    /\ req[r].pc = "done" /\ req[r].method = "GET"
    /\ req[r].response.status = 200
    /\ DOMAIN req[r].response.body.value = {"1", "2"}
    /\ req[r].response.body.value["1"].file_uri = req[r].response.body.value["2"].file_uri

\* C9: every entity in the store is labelled positive, negative or neutral,
\* never unknown.
C9_NoUnknownStored ==
  \A x \in store : x.sentiment \in {PyStr(l) : l \in Labels}

C9_Witness ==
  \E r \in Successful :
    /\ req[r].entity \in store
    /\ req[r].entity.sentiment = PyStr("neutral")

\* C10: whatever the interleaving, the entity a POST builds carries the
\* file_uri and the label of the score of that same request, a successful
\* POST has put exactly that entity, and once every request has ended the
\* store is the initial store plus one entity per successful POST.
C10_RequestsIndependent ==
  /\ \A r \in Reqs :
       req[r].pc = "put" =>
         /\ req[r].entity.file_uri = req[r].file_uri
         /\ req[r].entity.sentiment = PyStr(req[r].overall_sentiment)
         /\ (req[r].sentiment.value > 0) = (req[r].overall_sentiment = "positive")
         /\ (req[r].sentiment.value < 0) = (req[r].overall_sentiment = "negative")
  /\ \A r \in Successful :
       /\ req[r].entity \in store
       /\ req[r].entity.file_uri = req[r].file_uri
       /\ req[r].entity.sentiment = PyStr(req[r].overall_sentiment)
       /\ \A q \in Successful : q # r => req[q].entity # req[r].entity
  /\ (\A r \in Reqs : req[r].pc = "done")
       => store = store0 \cup {req[r].entity : r \in Successful}

C10_Witness ==
  \E r, q \in Successful :
    /\ r < q
    /\ req[r].file_uri # req[q].file_uri
    /\ req[r].overall_sentiment # req[q].overall_sentiment
    /\ req[q].entity.key.id.value < req[r].entity.key.id.value
    /\ \A p \in Reqs : req[p].pc = "done"

====
